---- MODULE Spec2Model ----
(***************************************************************************)
(* claude-alarm: the hook entry point, the CLI (start / stop / status),    *)
(* the liveness record (alarm.pid) and the detached alarm scheduler.       *)
(*                                                                         *)
(* Time is counted in ticks of 30 seconds of awake (monotonic) time.  A    *)
(* timer is the number of ticks left before its callback is due; NoTimer   *)
(* is a timer that is not armed.  toTarget is targetTime - Date.now(),     *)
(* floored at 0: it goes down with every tick and also while the host      *)
(* sleeps, whereas timers do not count during sleep.                       *)
(*                                                                         *)
(* The repository holds three versions of the scheduler:                   *)
(*   v1  src/src/alarm-daemon.js            one setTimeout, no dialog      *)
(*   v2  src/src/hook-handler.js:149-404    one setTimeout, dismiss dialog *)
(*   v3  src/src/hook-handler.js:406-710    setInterval checker + direct   *)
(*                                          setTimeout, fireAlarm guard    *)
(* daemon is the version installed as ~/.claude-alarm/alarm-daemon.js.     *)
(***************************************************************************)
EXTENDS Integers, FiniteSets, Sequences, TLC

VARIABLES pidFile, daemon, sched, client, io

vars == <<pidFile, daemon, sched, client, io>>

\* ---------------------------------------------------------------- bounds
NumSched == 2
NumClients == 2
MaxWait == 2
MaxSleep == 2
MaxLen == 2

\* ------------------------------------------------------- program constants
\* setInterval(..., 30 * 1000): one tick
CheckTicks == 1
\* setTimeout(..., 60 * 1000): two ticks
RepeatTicks == 2
\* setTimeout(() => process.exit(0), 5000) (3000 in v1): within one tick
GraceTicks == 1

\* the longest delay setTimeout counts, 2147483647 ms, in whole ticks; a
\* longer delay is set to 1 ms
TimerLimit == 71582
\* a wait longer than setTimeout counts ("in 600 hours", start 600h)
LongWait == TimerLimit + 1

NoRecord == 0
NoTimer == -1

Scheds == 1..NumSched

\* the process id in a record left behind by a scheduler of an earlier session
\* that died without cleanup (SIGKILL, power loss); no process has it now
StalePid == NumSched + 1
Clients == 1..NumClients
Variants == {"v1", "v2", "v3"}
Commands == {"hook", "start", "stop", "status"}

\* ------------------------------------------------- the classifier (hook)
\* The text a hook scans is a sequence of phrases.  A phrase is one thing a
\* regular expression of the hook can hit: an indicator wording, a duration
\* ("in N hours", "in N minutes", "in N seconds", "retry-after: N"), a clock
\* time, or other words.
\*   w    the wording of an indicator, lower-cased
\*   up   the wording is written in upper case
\*   gap  indicator: characters between its words ("rate limit" 1,
\*        "ratelimit" 0, "rate -- limit" more); for "429": 0 when it stands
\*        alone, more when it is glued into a longer number or word
\*   n    the number of a duration (hours are given in hundredths)
\*   h, m, ap, prep   clock time h:m, "AM" / "PM" / "none", and whether
\*        at / until / by stands before it
Phrase(k, w, up, gap, n, h, m, ap, prep) ==
  [k |-> k, w |-> w, up |-> up, gap |-> gap, n |-> n, h |-> h, m |-> m,
   ap |-> ap, prep |-> prep]

Other == Phrase("other", "", FALSE, 0, 0, 0, 0, "none", FALSE)

Indicator(w, up, gap) == Phrase("ind", w, up, gap, 0, 0, 0, "none", FALSE)

Duration(k, n) == Phrase(k, "", FALSE, 0, n, 0, 0, "none", FALSE)

Clock(h, m, ap, prep) == Phrase("clock", "", FALSE, 0, 0, h, m, ap, prep)

\* a delay written with two units, "in N hours M minutes": the hours
\* expression hits its first part, and no expression hits "M minutes" (the
\* minutes expression needs "in" right before the number)
Compound(n, m) == Phrase("inHours", "", FALSE, 0, n, 0, m, "none", FALSE)

\* the two versions of the hook: src/unnamed/part_000 (old) and
\* src/src/hook-handler.js (new)
HookVersions == {"old", "new"}

\* rateLimitPatterns, in the order of the array
rateLimitPatterns(v) ==
  <<"rate limit", "usage limit", "limit reached", "limit exceeded",
    "too many requests", "429">>
  \o (IF v = "old" THEN <<"try again in">> ELSE <<>>)
  \o <<"cooldown period", "quota exceeded", "token limit reached",
       "capacity limit", "over capacity">>

\* the wordings a pattern hits: /limit.?reached/ also hits inside
\* "token limit reached"
Hits(p) ==
  IF p = "limit reached" THEN {"limit reached", "token limit reached"} ELSE {p}

\* a case-sensitive p.test(text)
testCaseSensitive(p, text) ==
  \E i \in 1..Len(text) :
    /\ text[i].k = "ind"
    /\ text[i].w \in Hits(p)
    /\ ~text[i].up
    /\ IF p = "429" THEN text[i].gap = 0 ELSE text[i].gap <= 1

\* p.test(text): /a.?b/i allows at most one character between the words in
\* either case; /\b429\b/ needs a word boundary on both sides
test(p, text) ==
  \E i \in 1..Len(text) :
    /\ text[i].k = "ind"
    /\ text[i].w \in Hits(p)
    /\ IF p = "429" THEN text[i].gap = 0 ELSE text[i].gap <= 1

\* a classifier that takes every text for a rate limit
matchesAlways(v, text) == TRUE

\* matchesRateLimit(text): if (!text) return false; patterns.some(p => p.test(text))
matchesRateLimit(v, text) ==
  IF text = <<>> THEN FALSE
  ELSE \E j \in 1..Len(rateLimitPatterns(v)) : test(rateLimitPatterns(v)[j], text)

\* ----------------------------------------------------- the parser (hook)
\* return null
Null == -1

\* rounding down where the code rounds up
FloorDiv(a, b) == a \div b

\* Math.ceil(a / b) for a >= 0, b > 0
CeilDiv(a, b) == (a + b - 1) \div b

Max(a, b) == IF a >= b THEN a ELSE b

\* the phrases the expressions of extractResetTime hit: the four duration
\* expressions, (\d{1,2}):(\d{2})\s*(AM|PM) and (?:at|until|by)\s+(\d{1,2}):(\d{2})
Matches(re, ph) ==
  IF re = "ampm" THEN ph.k = "clock" /\ ph.ap # "none"
  ELSE IF re = "at" THEN ph.k = "clock" /\ ph.prep
  ELSE ph.k = re

\* a match that looks at the head of the text only
FirstMatchHead(text, re) ==
  IF text # <<>> /\ Matches(re, text[1]) THEN 1 ELSE 0

\* text.match(re): the first phrase the expression hits, 0 when none
FirstMatch(text, re) ==
  IF \E i \in 1..Len(text) : Matches(re, text[i])
  THEN CHOOSE i \in 1..Len(text) :
         Matches(re, text[i]) /\ \A j \in 1..(i - 1) : ~Matches(re, text[j])
  ELSE 0

\* the clock time taken on the current day whether or not it has passed
ClockWaitNoRoll(h, m, now) ==
  LET today == 3600 * h + 60 * m
  IN Max(1, CeilDiv(IF today > now THEN today - now ELSE 0, 60))

\* target.setHours(h, m, 0, 0); if (target <= now) next day;
\* Math.max(1, Math.ceil((target - now) / 60000)).  now is in seconds since
\* midnight; the result is in minutes
ClockWait(h, m, now) ==
  LET today == 3600 * h + 60 * m
      target == IF today <= now THEN today + 86400 ELSE today
  IN Max(1, CeilDiv(target - now, 60))

\* extractResetTime(text): the branches in the order of the code, each on the
\* first hit of its expression.  The result is in SECONDS (the code's
\* minutes times 60, so that the 0.5 of the seconds branch is a whole
\* number); new Date() is read as one instant, now.
extractResetTime(v, text, now) ==
  LET ih == FirstMatch(text, "inHours")
      im == FirstMatch(text, "inMinutes")
      is == FirstMatch(text, "inSeconds")
      ra == FirstMatch(text, "retryAfter")
      ap == FirstMatch(text, "ampm")
      at == FirstMatch(text, "at")
  IN IF ih # 0 THEN 60 * CeilDiv(text[ih].n * 60, 100)
     ELSE IF im # 0 THEN 60 * text[im].n
     ELSE IF v = "new" /\ is # 0 THEN Max(30, text[is].n)
     ELSE IF ra # 0 THEN 60 * Max(1, CeilDiv(text[ra].n, 60))
     ELSE IF ap # 0
     THEN LET h0 == text[ap].h
              h1 == IF text[ap].ap = "PM" /\ h0 # 12 THEN h0 + 12
                    ELSE IF text[ap].ap = "AM" /\ h0 = 12 THEN 0 ELSE h0
          IN 60 * ClockWait(h1, text[ap].m, now)
     ELSE IF at # 0 /\ text[at].h >= 0 /\ text[at].h <= 23
                    /\ text[at].m >= 0 /\ text[at].m <= 59
     THEN 60 * ClockWait(text[at].h, text[at].m, now)
     ELSE Null

\* ------------------------------------------------ time expressions (CLI)
\* a time expression of `start`: a number followed by h, m, s or nothing,
\* or something else (junk); the number of the h form is in hundredths
\* ("1.5h" is n = 150)
TimeArg(form, n) == [form |-> form, n |-> n]

\* no argument given
Missing == TimeArg("missing", 0)

\* the arguments tried: "0h" "0.01h" "0.9h" "1.5h", "0m" ... "150m", "0s" ...
\* "150s", "0" ... "150", other text, and no argument
TimeArgs ==
  {TimeArg(form, n) : form \in {"h", "m", "s", "bare"}, n \in {0, 1, 90, 150}}
  \cup {TimeArg("junk", 0), Missing}

\* parseTime(str), in minutes: the s form and junk hit none of the three
\* expressions
parseTime(a) ==
  IF a.form = "h" THEN CeilDiv(a.n * 60, 100)
  ELSE IF a.form = "m" THEN a.n
  ELSE IF a.form = "bare" THEN a.n
  ELSE 0

\* manualStart: if (minutes <= 0) { ...; process.exit(1) } rejects nothing
ValidTimeAlways(minutes) == TRUE

\* manualStart: the time is accepted unless minutes <= 0
ValidTime(minutes) == ~(minutes <= 0)

\* ------------------------------------- the wait argument of the scheduler
\* JavaScript values: a number (x counts half minutes for a wait in minutes,
\* milliseconds for waitMs), NaN, Infinity, a non-numeric string, undefined
Num(x) == [t |-> "num", x |-> x]

NaN == [t |-> "nan", x |-> 0]

Infinity == [t |-> "inf", x |-> 0]

Str == [t |-> "str", x |-> 0]

Undefined == [t |-> "undef", x |-> 0]

\* parseFloat(waitArg) of a string holding a number, "Infinity" or other text
parseFloat(a) == IF a.t \in {"num", "inf"} THEN a ELSE NaN

\* parseInt(waitArg): the integer part, NaN for "Infinity" and other text
parseInt(a) ==
  IF a.t # "num" THEN NaN
  ELSE IF a.x >= 0 THEN Num(2 * (a.x \div 2)) ELSE Num(-(2 * ((-a.x) \div 2)))

\* waitMinutes of the three versions, test mode aside
waitMinutes(ver, a, dflt) ==
  IF ver = "v1"
  THEN IF a.t = "undef" THEN dflt
       ELSE IF parseInt(a).t = "nan" \/ parseInt(a) = Num(0) THEN dflt
       ELSE parseInt(a)
  ELSE LET parsedWait == IF a.t # "undef" THEN parseFloat(a) ELSE NaN
       IN IF parsedWait.t # "nan" /\ (parsedWait.t = "inf" \/ parsedWait.x >= 0)
          THEN parsedWait ELSE dflt

\* waitMs = Math.round(waitMinutes * 60 * 1000) (no rounding in v1)
waitMs(ver, a, dflt) ==
  LET wm == waitMinutes(ver, a, dflt)
  IN IF wm.t = "num" THEN Num(30000 * wm.x)
     ELSE IF wm.t = "inf" THEN Infinity
     ELSE NaN

\* Number.isFinite(v) && v >= 0
FiniteNonNegative(v) == v.t = "num" /\ v.x >= 0

\* ------------------------------------------------------------ the scheduler
\* what an alert can run: the terminal bell, the desktop notification, the
\* chime, the voice, the Linux notification sound (paplay) and its fallback
\* (aplay), and the push request
Mechanisms ==
  {"bell", "notification", "chime", "speech", "sound", "fallback", "push"}

\* the host a scheduler runs on: os.platform(), whether config.voice names a
\* Linux voice tool, the mechanisms whose tool fails (execFileSync throws),
\* and the push settings:
\*   "none"      NTFY_TOPIC not set
\*   "ok"        topic set, the relay answers
\*   "neterr"    topic set, the request fails on the network
\*   "badurl"    topic set, NTFY_URL is no URL ("ntfy.example.com")
\*   "badproto"  topic set, NTFY_URL is neither http nor https ("ftp://...")
Env(platform, voice, fails, push) ==
  [platform |-> platform, voice |-> voice, fails |-> fails, push |-> push]

\* macOS, every tool works, no push topic
QuietEnv == Env("darwin", TRUE, {}, "none")

NoAttempts == [t \in Mechanisms |-> 0]

NewSched ==
  [st |-> "unborn", env |-> QuietEnv, test |-> FALSE, wait |-> 0, toTarget |-> 0,
   direct |-> NoTimer, checker |-> NoTimer, repeatT |-> NoTimer, graceT |-> NoTimer,
   alarmFired |-> FALSE, dialog |-> "none", sig |-> FALSE,
   \* history of the run
   renders |-> 0, dialogs |-> 0, firstAlerts |-> 0, raced |-> FALSE, overdue |-> 0,
   sinceFire |-> 0,
   overLive |-> FALSE, exitVia |-> "none", exitFrom |-> "none",
   cleanups |-> 0, err |-> FALSE, fileAfterExit |-> NoRecord,
   repeatSawFile |-> FALSE,
   \* the times each mechanism was attempted, and an exception on its way
   \* out of the running callback
   att |-> NoAttempts, threw |-> FALSE]

Alive(r) == r.st \in {"boot", "waiting", "fired", "repeated"}

\* between claim (writeFileSync) and release (cleanup / exit)
Active(r) == ~r.test /\ r.st \in {"waiting", "fired", "repeated"}

\* fs.existsSync(PID_FILE)
existsSync(f) == f # NoRecord

\* a probe that throws for every pid
kill0AlwaysThrows(sch, pid) == FALSE

\* process.kill(pid, 0): returns when the process exists, throws otherwise
kill0(sch, pid) == pid \in DOMAIN sch /\ Alive(sch[pid])

\* fs.unlinkSync(PID_FILE): throws ENOENT when the file is absent
unlinkSync(f) == [file |-> NoRecord, threw |-> (f = NoRecord)]

\* a release that does not look at the mode
cleanupAlways(r, f) ==
  LET u == unlinkSync(f) IN [file |-> u.file, err |-> FALSE]

cleanupNoCatch(r, f) ==
  IF r.test THEN [file |-> f, err |-> FALSE]
  ELSE [file |-> unlinkSync(f).file, err |-> unlinkSync(f).threw]

\* cleanup(): try { unlinkSync } catch {} unless test mode
cleanup(r, f) ==
  IF r.test THEN [file |-> f, err |-> FALSE]
  ELSE [file |-> unlinkSync(f).file, err |-> FALSE]

\* playAlertSounds()
\* try { execFileSync(tool, ...) } catch {}: one attempt, a failure is dropped
TryExec(att, tool) == [att EXCEPT ![tool] = @ + 1]

\* the three tools under one try: the first failure skips the rest
macOSSoundsOneTry(att, e) ==
  LET a1 == TryExec(att, "notification")
      a2 == IF "notification" \in e.fails THEN a1 ELSE TryExec(a1, "chime")
  IN IF {"notification", "chime"} \cap e.fails # {} THEN a2
     ELSE TryExec(a2, "speech")

\* macOSSounds(): osascript notification, afplay, say, each in its own try
macOSSounds(att, e) ==
  TryExec(TryExec(TryExec(att, "notification"), "chime"), "speech")

\* linuxSounds(): notify-send; espeak or spd-say when configured; paplay,
\* and aplay in the catch of paplay
linuxSounds(att, e) ==
  LET a1 == TryExec(att, "notification")
      a2 == IF e.voice THEN TryExec(a1, "speech") ELSE a1
      a3 == TryExec(a2, "sound")
  IN IF "sound" \in e.fails THEN TryExec(a3, "fallback") ELSE a3

\* windowsSounds(): one powershell call
windowsSounds(att, e) == TryExec(att, "speech")

\* sendNtfy(): nothing without a topic; new URL(...) and transport.request(...)
\* stand outside any try, so a bad NTFY_URL throws before a request exists;
\* a network error arrives at req.on('error', () => {})
sendNtfy(att, e) ==
  IF e.push = "none" THEN [att |-> att, threw |-> FALSE]
  ELSE IF e.push \in {"badurl", "badproto"} THEN [att |-> att, threw |-> TRUE]
  ELSE [att |-> TryExec(att, "push"), threw |-> FALSE]

\* playAlertSounds() of v3 and v2, fireAlarm() of v1: the bell (v1, v2), the
\* sounds of the platform, the push (v3)
playAlertSounds(r, v) ==
  LET e == r.env
      a0 == IF v = "v3" THEN r.att ELSE TryExec(r.att, "bell")
      a1 == IF e.platform = "darwin" THEN macOSSounds(a0, e)
            ELSE IF e.platform = "linux" THEN linuxSounds(a0, e)
            ELSE IF e.platform = "win32" THEN windowsSounds(a0, e)
            ELSE a0
      n == IF v = "v3" THEN sendNtfy(a1, e) ELSE [att |-> a1, threw |-> FALSE]
  IN [r EXCEPT !.renders = @ + 1, !.att = n.att, !.threw = n.threw]

\* showDismissDialog(): dlg says whether the platform gave a dialog process
showDismissDialog(r, dlg) ==
  IF dlg THEN [r EXCEPT !.dialog = "open", !.dialogs = @ + 1] ELSE r

\* the first alert: render, dialog (v2, v3), arm the 60 s repeat timer
FirstAlert(r, v, dlg) ==
  LET a == playAlertSounds(r, v)
      b == IF v = "v1" THEN a ELSE showDismissDialog(a, dlg)
  IN IF a.threw THEN [a EXCEPT !.firstAlerts = @ + 1]
     ELSE [b EXCEPT !.repeatT = RepeatTicks, !.st = "fired", !.firstAlerts = @ + 1]

fireAlarmNoGuard(r, v, dlg) == FirstAlert(r, v, dlg)

\* fireAlarm() of v3: guard, clearInterval, clearTimeout, first alert
fireAlarm(r, v, dlg) ==
  IF r.alarmFired THEN r
  ELSE FirstAlert([r EXCEPT !.alarmFired = TRUE, !.checker = NoTimer,
                            !.direct = NoTimer], v, dlg)

\* process.exit(0) after n explicit cleanup() calls; the 'exit' handler runs
\* cleanup() once more
Exited(r, f, via, n) ==
  LET c1 == IF n > 0 THEN cleanup(r, f) ELSE [file |-> f, err |-> FALSE]
      c2 == cleanup(r, c1.file)
  IN [rec |-> [r EXCEPT !.st = "exited", !.exitVia = via, !.exitFrom = r.st,
                        !.direct = NoTimer, !.checker = NoTimer,
                        !.repeatT = NoTimer, !.graceT = NoTimer,
                        !.sig = FALSE, !.dialog = "none", !.toTarget = 0,
                        !.raced = FALSE, !.overdue = 0, !.sinceFire = 0,
                        !.overLive = FALSE, !.repeatSawFile = FALSE,
                        !.cleanups = @ + n + 1,
                        !.err = c1.err \/ c2.err,
                        !.fileAfterExit = c2.file],
      file |-> c2.file]

\* the end of a callback: an exception nothing caught ends the process
\* (the 'exit' handler still runs cleanup())
Settle(r, f) ==
  IF r.threw THEN Exited(r, f, "crash", 0) ELSE [rec |-> r, file |-> f]

\* ------------------------------------------- calls of the pure functions
\* io holds one call of a pure function: its name, its arguments and, once
\* done, its result (outB / outN / outV by type of result)
Call(fn, v, text, now, targ, arg, cfg) ==
  [fn |-> fn, v |-> v, text |-> text, now |-> now, targ |-> targ, arg |-> arg,
   cfg |-> cfg, done |-> FALSE, outB |-> FALSE, outN |-> 0, outV |-> NaN]

\* no call
IdleIO == Call("none", "new", <<>>, 0, Missing, Undefined, Num(480))

\* ------------------------------------------------------------------- Init
NewClient(cmd) ==
  [cmd |-> cmd, pc |-> "start", obs |-> "none", result |-> "none",
   exitCode |-> -1, launched |-> FALSE, w |-> 0, sawLive |-> FALSE,
   \* history: what a hook's parser gave, the default when it gave null, and
   \* the time expression `start` was given
   reset |-> Null, dflt |-> 0, arg |-> TimeArg("none", 0)]

CmdRank(cmd) ==
  CASE cmd = "hook" -> 1 [] cmd = "start" -> 2 [] cmd = "stop" -> 3 [] OTHER -> 4

\* no scheduler runs; the commands about to be invoked are listed in a fixed
\* order (the invocations themselves interleave freely)
Init ==
  /\ pidFile \in {NoRecord, StalePid}
  /\ daemon \in Variants
  /\ sched = [s \in Scheds |-> NewSched]
  /\ client \in [Clients -> {NewClient(c) : c \in Commands}]
  /\ \A c, d \in Clients : c < d => CmdRank(client[c].cmd) <= CmdRank(client[d].cmd)
  /\ io = IdleIO

\* one scheduler started directly: node alarm-daemon.js <minutes>, or
\* node alarm-daemon.js --now (waitMinutes = 0)
InitSched ==
  /\ pidFile = NoRecord
  /\ daemon \in Variants
  /\ \E w \in 0..MaxWait \cup {LongWait}, tst \in BOOLEAN :
       /\ tst => w = 0
       /\ sched = [s \in Scheds |->
                    IF s = 1
                    THEN [NewSched EXCEPT !.st = "boot", !.wait = w, !.test = tst]
                    ELSE NewSched]
  /\ client = [c \in Clients |-> [NewClient("none") EXCEPT !.pc = "done"]]
  /\ io = IdleIO

\* ------------------------------------------------------ scheduler actions
\* the ticks after which a setTimeout(fn, delay) callback is due
setTimeout(delay) == IF delay > TimerLimit THEN 0 ELSE delay

\* a scheduler that writes the record in test mode too
writePidAlways(r, f, s) == s

\* if (!isTestMode) fs.writeFileSync(PID_FILE, String(process.pid))
writePid(r, f, s) == IF r.test THEN f ELSE s

\* module start: claim (writeFileSync), handlers, wait time, then the test
\* branch (alert once, exit) or the timers
SchedStart(s) ==
  /\ sched[s].st = "boot"
  /\ LET r == sched[s]
         f1 == writePid(r, pidFile, s)
     IN
       IF r.test
       THEN LET a == playAlertSounds(r, daemon)
                x == Exited(a, f1, IF a.threw THEN "crash" ELSE "test", 0) IN
            /\ sched' = [sched EXCEPT ![s] = x.rec]
            /\ pidFile' = x.file
       ELSE /\ pidFile' = f1
            /\ sched' = [sched EXCEPT ![s] =
                 [r EXCEPT !.st = "waiting", !.wait = 0, !.toTarget = r.wait,
                           !.direct = setTimeout(r.wait),
                           !.checker = IF daemon = "v3" THEN CheckTicks ELSE NoTimer]]
  /\ UNCHANGED <<daemon, io, client>>

\* setInterval callback: if (Date.now() >= targetTime) fireAlarm()
SchedChecker(s) ==
  /\ Alive(sched[s])
  /\ sched[s].checker = 0
  /\ \E dlg \in BOOLEAN :
       LET r == sched[s]
           x == Settle(IF r.toTarget = 0
                       THEN fireAlarm([r EXCEPT !.raced = (r.direct = 0)], daemon, dlg)
                       ELSE [r EXCEPT !.checker = CheckTicks], pidFile)
       IN /\ sched' = [sched EXCEPT ![s] = x.rec]
          /\ pidFile' = x.file
  /\ UNCHANGED <<daemon, io, client>>

\* setTimeout(..., waitMs) callback: fireAlarm() in v3, the alert inline in v1, v2
SchedDirect(s) ==
  /\ Alive(sched[s])
  /\ sched[s].direct = 0
  /\ \E dlg \in BOOLEAN :
       LET r == sched[s]
           r0 == [r EXCEPT !.direct = NoTimer,
                           !.raced = (r.checker = 0 /\ r.toTarget = 0)]
           x == Settle(IF daemon = "v3" THEN fireAlarm(r0, daemon, dlg)
                       ELSE FirstAlert(r0, daemon, dlg), pidFile)
       IN /\ sched' = [sched EXCEPT ![s] = x.rec]
          /\ pidFile' = x.file
  /\ UNCHANGED <<daemon, io, client>>

SchedDismissNoExit(s) ==
  /\ Alive(sched[s])
  /\ sched[s].dialog = "open"
  /\ sched' = [sched EXCEPT ![s] = [@ EXCEPT !.dialog = "none", !.exitVia = "dismiss",
                                              !.exitFrom = sched[s].st]]
  /\ pidFile' = cleanup(sched[s], pidFile).file
  /\ UNCHANGED <<daemon, io, client>>

\* dialogProc.on('close'): cleanup(); process.exit(0)
SchedDismiss(s) ==
  /\ Alive(sched[s])
  /\ sched[s].dialog = "open"
  /\ LET x == Exited(sched[s], pidFile, "dismiss", 1) IN
       /\ sched' = [sched EXCEPT ![s] = x.rec]
       /\ pidFile' = x.file
  /\ UNCHANGED <<daemon, io, client>>

SchedRepeatAlways(s) ==
  /\ Alive(sched[s])
  /\ sched[s].repeatT = 0
  /\ sched' = [sched EXCEPT ![s] =
       [playAlertSounds(sched[s], daemon) EXCEPT
          !.repeatT = NoTimer, !.graceT = GraceTicks, !.st = "repeated",
          !.repeatSawFile = existsSync(pidFile)]]
  /\ UNCHANGED <<pidFile, daemon, io, client>>

\* the 60 s callback: if (fs.existsSync(PID_FILE)) playAlertSounds(); arm the exit
SchedRepeat(s) ==
  /\ Alive(sched[s])
  /\ sched[s].repeatT = 0
  /\ LET r == sched[s]
         r1 == IF existsSync(pidFile) THEN playAlertSounds(r, daemon) ELSE r
         x == Settle(IF r1.threw THEN r1
                     ELSE [r1 EXCEPT !.repeatT = NoTimer, !.graceT = GraceTicks,
                                     !.st = "repeated",
                                     !.repeatSawFile = existsSync(pidFile)], pidFile)
     IN /\ sched' = [sched EXCEPT ![s] = x.rec]
        /\ pidFile' = x.file
  /\ UNCHANGED <<daemon, io, client>>

SchedGraceNoExit(s) ==
  /\ Alive(sched[s])
  /\ sched[s].graceT = 0
  /\ sched' = [sched EXCEPT ![s] = [@ EXCEPT !.graceT = NoTimer]]
  /\ UNCHANGED <<pidFile, daemon, io, client>>

\* setTimeout(() => process.exit(0), 5000); the 'exit' handler runs cleanup()
SchedGrace(s) ==
  /\ Alive(sched[s])
  /\ sched[s].graceT = 0
  /\ LET x == Exited(sched[s], pidFile, "grace", 0) IN
       /\ sched' = [sched EXCEPT ![s] = x.rec]
       /\ pidFile' = x.file
  /\ UNCHANGED <<daemon, io, client>>

SchedSignalNoExit(s) ==
  /\ Alive(sched[s])
  /\ sched[s].sig
  /\ sched' = [sched EXCEPT ![s] = [@ EXCEPT !.sig = FALSE, !.exitVia = "signal",
                                              !.exitFrom = sched[s].st]]
  /\ pidFile' = cleanup(sched[s], pidFile).file
  /\ UNCHANGED <<daemon, io, client>>

\* process.on('SIGTERM' / 'SIGINT'): cleanup(); process.exit(0)
SchedSignal(s) ==
  /\ Alive(sched[s])
  /\ sched[s].sig
  /\ LET x == Exited(sched[s], pidFile, "signal", 1) IN
       /\ sched' = [sched EXCEPT ![s] = x.rec]
       /\ pidFile' = x.file
  /\ UNCHANGED <<daemon, io, client>>

\* --------------------------------------------------------- the environment
\* a termination signal sent from outside (kill, Ctrl-C)
ExternalSignal(s) ==
  /\ Active(sched[s])
  /\ ~sched[s].sig
  /\ sched' = [sched EXCEPT ![s] = [@ EXCEPT !.sig = TRUE]]
  /\ UNCHANGED <<pidFile, daemon, io, client>>

\* a callback of the event loop is due: it runs before time moves on
Due(r) ==
  /\ Alive(r)
  /\ \/ r.st = "boot"
     \/ r.sig
     \/ r.direct = 0
     \/ r.checker = 0
     \/ r.repeatT = 0
     \/ r.graceT = 0

Dec(t) == IF t > 0 THEN t - 1 ELSE t

Counting(r) ==
  Alive(r) /\ (r.toTarget > 0 \/ r.direct > 0 \/ r.checker > 0 \/ r.repeatT > 0 \/ r.graceT > 0)

\* 30 seconds pass with the host awake
Tick ==
  /\ \A s \in Scheds : ~Due(sched[s])
  /\ \A c \in Clients : client[c].pc \in {"start", "done"}
  /\ \E s \in Scheds : Counting(sched[s])
  /\ sched' = [s \in Scheds |->
       LET r == sched[s] IN
         IF Alive(r)
         THEN [r EXCEPT !.toTarget = Dec(@), !.direct = Dec(@), !.checker = Dec(@),
                        !.repeatT = Dec(@), !.graceT = Dec(@),
                        !.overdue = IF r.st = "waiting" /\ r.toTarget = 0
                                    THEN @ + 1 ELSE @,
                        !.sinceFire = IF r.st \in {"fired", "repeated"}
                                      THEN @ + 1 ELSE @]
         ELSE r]
  /\ UNCHANGED <<pidFile, daemon, io, client>>

\* the host sleeps for d ticks: the wall clock moves, the timers do not
\* (sleeps are followed for targets within MaxWait)
Sleep(d) ==
  /\ \E s \in Scheds : Alive(sched[s]) /\ sched[s].toTarget > 0
  /\ \A s \in Scheds : sched[s].toTarget <= MaxWait
  /\ sched' = [s \in Scheds |->
       LET r == sched[s] IN
         IF Alive(r)
         THEN [r EXCEPT !.toTarget = IF @ > d THEN @ - d ELSE 0]
         ELSE r]
  /\ UNCHANGED <<pidFile, daemon, io, client>>

NextSched ==
  \/ \E s \in Scheds : SchedStart(s)
  \/ \E s \in Scheds : SchedChecker(s)
  \/ \E s \in Scheds : SchedDirect(s)
  \/ \E s \in Scheds : SchedDismiss(s)
  \/ \E s \in Scheds : SchedRepeat(s)
  \/ \E s \in Scheds : SchedGrace(s)
  \/ \E s \in Scheds : SchedSignal(s)
  \/ \E s \in Scheds : ExternalSignal(s)
  \/ Tick
  \/ \E d \in 1..MaxSleep : Sleep(d)

SpecSched == InitSched /\ [][NextSched]_vars

\* ------------------------------------------ alerts on the hosts they meet
\* macOS and Linux with every set of failing tools, Linux without a voice,
\* Windows, a platform without sounds, and the push settings
AlertEnvs ==
  {Env("darwin", TRUE, fails, "none") :
     fails \in SUBSET {"notification", "chime", "speech"}}
  \cup {Env("linux", TRUE, fails, "none") :
     fails \in SUBSET {"notification", "speech", "sound", "fallback"}}
  \cup {Env("linux", FALSE, {}, "none"), Env("win32", TRUE, {}, "none"),
        Env("win32", TRUE, {"speech"}, "none"), Env("freebsd", TRUE, {}, "none")}
  \cup {Env("darwin", TRUE, {}, push) : push \in {"ok", "neterr", "badurl", "badproto"}}

\* on one host: node alarm-daemon.js <minutes> (scheduler 1) and the test
\* alarm of `test` or `setup`, node alarm-daemon.js --now (scheduler 2)
InitAlert ==
  /\ pidFile = NoRecord
  /\ daemon \in Variants
  /\ \E w \in 0..MaxWait, e \in AlertEnvs :
       sched = [s \in Scheds |->
                  IF s = 1
                  THEN [NewSched EXCEPT !.st = "boot", !.wait = w, !.env = e]
                  ELSE IF s = 2
                  THEN [NewSched EXCEPT !.st = "boot", !.test = TRUE, !.env = e]
                  ELSE NewSched]
  /\ client = [c \in Clients |-> [NewClient("none") EXCEPT !.pc = "done"]]
  /\ io = IdleIO

SpecAlert == InitAlert /\ [][NextSched]_vars

\* ------------------------------------------------ the hook and the CLI
\* history: the record names a process that is alive right now
LiveRecord(f, sch) == f \in DOMAIN sch /\ Alive(sch[f])

\* a liveness check that treats every existing record as stale
ProbeNeverLive(f, sch) ==
  IF ~existsSync(f) THEN "absent" ELSE "stale"

\* what the liveness check finds: existsSync, readFileSync + parseInt, kill(pid, 0)
Probe(f, sch) ==
  IF ~existsSync(f) THEN "absent"
  ELSE IF kill0(sch, f) THEN "live" ELSE "stale"

FreeSlots(sch) == {s \in Scheds : sch[s].st = "unborn"}

NextSlot(sch) == CHOOSE s \in FreeSlots(sch) : \A t \in FreeSlots(sch) : s <= t

\* spawn('node', [alarm-daemon.js, String(waitMinutes)], {detached: true})
Spawn(sch, w, over) ==
  [sch EXCEPT ![NextSlot(sch)] =
     [NewSched EXCEPT !.st = "boot", !.wait = w, !.overLive = over]]

Exit(c, code) == [c EXCEPT !.pc = "done", !.exitCode = code]

\* invocations of the same command that have not begun are alike: the one
\* listed first begins first
Turn(c) ==
  \A d \in Clients :
    (d < c /\ client[d].cmd = client[c].cmd) => client[d].pc # "start"

\* config.defaultWaitMinutes || 240, in seconds; cfg is the value saved in
\* config.json (Undefined: no file, or no such value)
defaultWait(cfg) == IF cfg.t = "num" /\ cfg.x # 0 THEN 30 * cfg.x ELSE 60 * 240

\* waitMinutes = resetMinutes || defaultWait, in seconds
waitArgument(reset, dflt) == IF reset = Null \/ reset = 0 THEN dflt ELSE reset

\* the ticks (30 s) a scheduler waits when given a wait of sec seconds
WaitTicks(sec) == sec \div 30

\* a wait the model's timers can count: whole ticks, at most MaxWait; v1
\* reads the argument with parseInt, so whole minutes only
Countable(sec, ver) ==
  /\ sec >= 0
  /\ sec % 30 = 0
  /\ WaitTicks(sec) <= MaxWait
  /\ ver = "v1" => sec % 60 = 0

\* what a hook is given on stdin: nothing parsable, or JSON whose message /
\* title / error fields join to a text ("rate -- limit" carries no indicator)
HookTexts ==
  {<<>>,
   <<Other>>,
   <<Indicator("rate limit", FALSE, 2)>>,
   <<Indicator("rate limit", FALSE, 1)>>,
   <<Indicator("usage limit", TRUE, 0), Duration("inMinutes", 1)>>,
   <<Indicator("429", FALSE, 0), Duration("inMinutes", 0)>>,
   <<Indicator("limit reached", FALSE, 1), Duration("inSeconds", 0)>>}

\* config.json as the hook finds it: absent, or defaultWaitMinutes = 1
HookConfigs == {Undefined, Num(2)}

\* history: the payload a hook was given.  "ignored": stdin was not JSON, the
\* JSON was no object, or no phrase of the text is an indicator wording
\* written as the expressions need it; "limit" otherwise
Payload(malformed, v, text) ==
  IF ~malformed /\ \E i \in 1..Len(text) :
                     /\ text[i].k = "ind"
                     /\ text[i].w = "try again in" => v = "old"
                     /\ IF text[i].w = "429" THEN text[i].gap = 0 ELSE text[i].gap <= 1
  THEN "limit" ELSE "ignored"

\* stdin 'end': JSON.parse, handleHook up to the liveness check (and through
\* the spawn when there is no record)
HookRun(c) ==
  /\ client[c].cmd = "hook"
  /\ client[c].pc = "start"
  /\ Turn(c)
  /\ \E malformed \in BOOLEAN, v \in HookVersions, text \in HookTexts,
        cfg \in HookConfigs :
       LET obs == Probe(pidFile, sched)
           k0 == [client[c] EXCEPT !.result = Payload(malformed, v, text)]
           k == [k0 EXCEPT !.sawLive = LiveRecord(pidFile, sched)]
           reset == extractResetTime(v, text, 0)
           dflt == defaultWait(cfg)
           sec == waitArgument(reset, dflt)
           kk == [k EXCEPT !.obs = obs, !.reset = reset,
                           !.dflt = IF reset = Null THEN dflt ELSE 0,
                           !.w = WaitTicks(sec)]
       IN
         IF malformed \/ ~matchesRateLimit(v, text)
         THEN /\ client' = [client EXCEPT ![c] = Exit(k0, 0)]
              /\ UNCHANGED <<pidFile, daemon, io, sched>>
         ELSE IF obs = "live"
         THEN /\ client' = [client EXCEPT ![c] = Exit([k EXCEPT !.obs = obs], 0)]
              /\ UNCHANGED <<pidFile, daemon, io, sched>>
         ELSE /\ Countable(sec, daemon)
              /\ IF obs = "stale"
                 THEN /\ client' = [client EXCEPT ![c] = [kk EXCEPT !.pc = "reap"]]
                      /\ UNCHANGED <<pidFile, daemon, io, sched>>
                 ELSE /\ FreeSlots(sched) # {}
                      /\ client' = [client EXCEPT ![c] =
                           Exit([kk EXCEPT !.launched = TRUE], 0)]
                      /\ sched' = Spawn(sched, kk.w, k.sawLive)
                      /\ UNCHANGED <<pidFile, daemon, io>>

\* the catch branch: unlinkSync(PID_FILE), then extract the wait and spawn
HookReap(c) ==
  /\ client[c].cmd = "hook"
  /\ client[c].pc = "reap"
  /\ FreeSlots(sched) # {}
  /\ pidFile' = unlinkSync(pidFile).file
  /\ client' = [client EXCEPT ![c] =
       Exit([client[c] EXCEPT !.launched = TRUE], 0)]
  /\ sched' = Spawn(sched, client[c].w, client[c].sawLive)
  /\ UNCHANGED <<daemon, io>>

\* a hook without the 8-second timer
HookDeadlineNone(c) ==
  /\ FALSE
  /\ UNCHANGED vars

\* setTimeout(() => process.exit(0), 8000): runs only while the process
\* waits for stdin to end; the 'end' handler itself exits before it returns
HookDeadline(c) ==
  /\ client[c].cmd = "hook"
  /\ client[c].pc = "start"
  /\ Turn(c)
  /\ client' = [client EXCEPT ![c] = Exit([client[c] EXCEPT !.result = "deadline"], 0)]
  /\ UNCHANGED <<pidFile, daemon, io, sched>>

\* the time expressions given to `start`: none, other text, and "1m", "1s",
\* "1", whose wait the model's timers can count
StartArgs(ver) ==
  {a \in TimeArgs : /\ a.form \in {"missing", "junk"} \/ (a.n = 1 /\ a.form # "h")
                    /\ Countable(60 * parseTime(a), ver)}

\* manualStart(timeArg) up to the probe of isAlarmRunning() (and through the
\* spawn when there is no record)
manualStart(c) ==
  /\ client[c].cmd = "start"
  /\ client[c].pc = "start"
  /\ Turn(c)
  /\ \E a \in StartArgs(daemon) :
       LET obs == Probe(pidFile, sched)
           k == [client[c] EXCEPT !.sawLive = LiveRecord(pidFile, sched),
                                  !.arg = a]
           w == WaitTicks(60 * parseTime(a))
       IN
         IF a = Missing \/ ~ValidTime(parseTime(a))
         THEN /\ client' = [client EXCEPT ![c] = Exit([client[c] EXCEPT !.arg = a], 1)]
              /\ UNCHANGED <<pidFile, daemon, io, sched>>
         ELSE IF obs = "live"
         THEN /\ client' = [client EXCEPT ![c] =
                   Exit([k EXCEPT !.obs = obs, !.result = "active"], 1)]
              /\ UNCHANGED <<pidFile, daemon, io, sched>>
         ELSE IF obs = "stale"
         THEN /\ client' = [client EXCEPT ![c] =
                   [k EXCEPT !.obs = obs, !.pc = "reap", !.w = w]]
              /\ UNCHANGED <<pidFile, daemon, io, sched>>
         ELSE /\ FreeSlots(sched) # {}
              /\ client' = [client EXCEPT ![c] =
                   Exit([k EXCEPT !.obs = obs, !.result = "inactive",
                                  !.launched = TRUE, !.w = w], 0)]
              /\ sched' = Spawn(sched, w, k.sawLive)
              /\ UNCHANGED <<pidFile, daemon, io>>

\* status() up to the probe of isAlarmRunning()
status(c) ==
  /\ client[c].cmd = "status"
  /\ client[c].pc = "start"
  /\ Turn(c)
  /\ LET obs == Probe(pidFile, sched)
         k == [client[c] EXCEPT !.obs = obs]
     IN client' = [client EXCEPT ![c] =
          IF obs = "stale" THEN [k EXCEPT !.pc = "reap"]
          ELSE Exit([k EXCEPT !.result = IF obs = "live" THEN "active"
                                         ELSE "inactive"], 0)]
  /\ UNCHANGED <<pidFile, daemon, io, sched>>

isAlarmRunningKeep(c) ==
  /\ client[c].cmd \in {"start", "status"}
  /\ client[c].pc = "reap"
  /\ client[c].cmd = "start" => FreeSlots(sched) # {}
  /\ pidFile' = pidFile
  /\ LET k == [client[c] EXCEPT !.result = "inactive"]
     IN IF client[c].cmd = "start"
        THEN /\ client' = [client EXCEPT ![c] = Exit([k EXCEPT !.launched = TRUE], 0)]
             /\ sched' = Spawn(sched, client[c].w, client[c].sawLive)
        ELSE /\ client' = [client EXCEPT ![c] = Exit(k, 0)]
             /\ sched' = sched
  /\ UNCHANGED <<daemon, io>>

\* the catch branch of isAlarmRunning(): unlinkSync(PID_FILE); return false;
\* manualStart then spawns, status prints "No active alarm"
isAlarmRunningReap(c) ==
  /\ client[c].cmd \in {"start", "status"}
  /\ client[c].pc = "reap"
  /\ client[c].cmd = "start" => FreeSlots(sched) # {}
  /\ pidFile' = unlinkSync(pidFile).file
  /\ LET k == [client[c] EXCEPT !.result = "inactive"]
     IN IF client[c].cmd = "start"
        THEN /\ client' = [client EXCEPT ![c] = Exit([k EXCEPT !.launched = TRUE], 0)]
             /\ sched' = Spawn(sched, client[c].w, client[c].sawLive)
        ELSE /\ client' = [client EXCEPT ![c] = Exit(k, 0)]
             /\ sched' = sched
  /\ UNCHANGED <<daemon, io>>

\* stopAlarm(): existsSync, readFileSync, process.kill(pid, 'SIGTERM')
stopAlarm(c) ==
  /\ client[c].cmd = "stop"
  /\ client[c].pc = "start"
  /\ Turn(c)
  /\ LET obs == Probe(pidFile, sched)
         k == [client[c] EXCEPT !.obs = obs]
     IN IF obs = "absent"
        THEN /\ client' = [client EXCEPT ![c] = Exit(k, 0)]
             /\ sched' = sched
        ELSE /\ client' = [client EXCEPT ![c] = [k EXCEPT !.pc = "unlink"]]
             /\ sched' = IF obs = "live" /\ sched[pidFile].st # "boot"
                         THEN [sched EXCEPT ![pidFile] = [@ EXCEPT !.sig = TRUE]]
                         ELSE sched
  /\ UNCHANGED <<pidFile, daemon, io>>

\* a stop that leaves the record where it is
stopKeepRecord(c) ==
  /\ client[c].cmd = "stop"
  /\ client[c].pc = "unlink"
  /\ client' = [client EXCEPT ![c] = Exit(client[c], 0)]
  /\ UNCHANGED <<pidFile, daemon, io, sched>>

\* stopAlarm(): the final unlinkSync(PID_FILE)
stopUnlink(c) ==
  /\ client[c].cmd = "stop"
  /\ client[c].pc = "unlink"
  /\ pidFile' = unlinkSync(pidFile).file
  /\ client' = [client EXCEPT ![c] = Exit(client[c], 0)]
  /\ UNCHANGED <<daemon, io, sched>>

Next ==
  \/ \E c \in Clients : HookRun(c)
  \/ \E c \in Clients : HookReap(c)
  \/ \E c \in Clients : HookDeadline(c)
  \/ \E c \in Clients : manualStart(c)
  \/ \E c \in Clients : status(c)
  \/ \E c \in Clients : isAlarmRunningReap(c)
  \/ \E c \in Clients : stopAlarm(c)
  \/ \E c \in Clients : stopUnlink(c)
  \/ \E s \in Scheds : SchedStart(s)
  \/ \E s \in Scheds : SchedChecker(s)
  \/ \E s \in Scheds : SchedDirect(s)
  \/ \E s \in Scheds : SchedDismiss(s)
  \/ \E s \in Scheds : SchedRepeat(s)
  \/ \E s \in Scheds : SchedGrace(s)
  \/ \E s \in Scheds : SchedSignal(s)
  \/ Tick

Spec == Init /\ [][Next]_vars

\* the event loop runs every due callback, and awake time passes
FairSched ==
  /\ SpecSched
  /\ WF_vars(Tick)
  /\ \A s \in Scheds :
       /\ WF_vars(SchedStart(s))
       /\ WF_vars(SchedChecker(s))
       /\ WF_vars(SchedDirect(s))
       /\ WF_vars(SchedRepeat(s))
       /\ WF_vars(SchedGrace(s))
       /\ WF_vars(SchedSignal(s))

\* a hook's 8-second timer fires while it waits for stdin, and its handler,
\* once entered, runs to its process.exit
FairHook ==
  /\ Spec
  /\ \A c \in Clients :
       /\ WF_vars(HookDeadline(c))
       /\ WF_vars(HookReap(c))

\* -------------------------------------------- the pure functions, called
SeqsUpTo(S, n) == UNION {[1..k -> S] : k \in 0..n}

\* indicator wordings of either version, in lower or upper case, with 0, 1
\* or 2 characters between the words
IndicatorPhrases ==
  {Indicator(rateLimitPatterns("old")[j], up, gap) :
     j \in 1..Len(rateLimitPatterns("old")), up \in BOOLEAN, gap \in 0..2}

ClassifyTexts == SeqsUpTo(IndicatorPhrases \cup {Other}, MaxLen)

\* "in 0 hours", "in 0.61 hours", ..., "retry-after: 61"; "in 2 hours",
\* "in 1.5 hours", "in 45 minutes", "retry-after: 90"; "in 1 hour 30 minutes"
DurationPhrases ==
  {Duration(k, n) : k \in {"inHours", "inMinutes", "inSeconds", "retryAfter"},
                    n \in {0, 61}}
  \cup {Duration("inHours", 200), Duration("inHours", 150),
        Duration("inMinutes", 45), Duration("retryAfter", 90),
        Compound(100, 30)}

\* "at 13:00" ..., "2:00 PM" ..., "at 3:00 PM", a clock time nothing
\* introduces, and "99:99 PM"
ClockPhrases ==
  {Clock(h, m, "none", TRUE) :
     h \in {13, 14, 15, 24}, m \in {0, 30, 60}}
  \cup {Clock(h, m, ap, FALSE) :
     h \in {2, 3, 12}, m \in {0, 30}, ap \in {"AM", "PM"}}
  \cup {Clock(3, 0, "PM", TRUE), Clock(15, 0, "none", FALSE),
        Clock(99, 99, "PM", FALSE)}

ParseTexts == SeqsUpTo(DurationPhrases \cup ClockPhrases \cup {Other}, MaxLen)

\* 00:00:00, 14:00:00, 14:00:30, 23:59:59 in seconds since midnight
Nows == {0, 50400, 50430, 86399}

\* no argument, "abc", "-5", "0", "0.5", "1", "Infinity"
WaitArgs == {Undefined, Str, Num(-10), Num(0), Num(1), Num(2), Infinity}

\* config.defaultWaitMinutes after the merge with the saved config: 240
\* (nothing saved), 1, 0, -5, "soon"
ConfigDefaults == {Num(480), Num(2), Num(0), Num(-10), Str}

InitPure ==
  /\ pidFile = NoRecord
  /\ sched = [s \in Scheds |-> NewSched]
  /\ client = [c \in Clients |-> [NewClient("none") EXCEPT !.pc = "done"]]
  /\ \/ /\ daemon = "v3"
        /\ \E v \in HookVersions, text \in ClassifyTexts :
             io = Call("matchesRateLimit", v, text, 0, Missing, Undefined, Num(480))
     \/ /\ daemon = "v3"
        /\ \E v \in HookVersions, text \in ParseTexts, now \in Nows :
             io = Call("extractResetTime", v, text, now, Missing, Undefined, Num(480))
     \/ /\ daemon = "v3"
        /\ \E a \in TimeArgs \ {Missing} :
             io = Call("parseTime", "new", <<>>, 0, a, Undefined, Num(480))
     \/ /\ daemon \in Variants
        /\ \E a \in WaitArgs, d \in ConfigDefaults :
             io = Call("waitMs", "new", <<>>, 0, Missing, a, d)

Classify ==
  /\ io.fn = "matchesRateLimit"
  /\ ~io.done
  /\ io' = [io EXCEPT !.done = TRUE, !.outB = matchesRateLimit(io.v, io.text)]
  /\ UNCHANGED <<pidFile, daemon, sched, client>>

Extract ==
  /\ io.fn = "extractResetTime"
  /\ ~io.done
  /\ io' = [io EXCEPT !.done = TRUE, !.outN = extractResetTime(io.v, io.text, io.now)]
  /\ UNCHANGED <<pidFile, daemon, sched, client>>

ParseTime ==
  /\ io.fn = "parseTime"
  /\ ~io.done
  /\ io' = [io EXCEPT !.done = TRUE, !.outN = parseTime(io.targ)]
  /\ UNCHANGED <<pidFile, daemon, sched, client>>

ParseWait ==
  /\ io.fn = "waitMs"
  /\ ~io.done
  /\ io' = [io EXCEPT !.done = TRUE, !.outV = waitMs(daemon, io.arg, io.cfg)]
  /\ UNCHANGED <<pidFile, daemon, sched, client>>

NextPure == Classify \/ Extract \/ ParseTime \/ ParseWait

SpecPure == InitPure /\ [][NextPure]_vars

\* ================================================================ claims

\* C1: in one non-test run the first-alert sequence (render, dialog, arm the
\* repeat timer) is executed exactly once whichever way the checker and the
\* direct timeout interleave, and fireAlarm called again changes nothing.
C1_FirstAlertOnce ==
  \A s \in Scheds :
    LET r == sched[s] IN
      ~r.test =>
        /\ r.firstAlerts <= 1
        /\ r.dialogs <= 1
        /\ r.st \in {"fired", "repeated"} => r.firstAlerts = 1 /\ r.renders >= 1
        /\ r.st = "fired" => r.repeatT # NoTimer
        /\ r.st = "waiting" => r.firstAlerts = 0
        /\ r.alarmFired =>
             /\ r.firstAlerts = 1
             /\ \A dlg \in BOOLEAN : fireAlarm(r, daemon, dlg) = r

\* both timers were due at the same instant and the alarm fired once
C1_Witness ==
  \E s \in Scheds :
    /\ daemon = "v3"
    /\ sched[s].st = "fired"
    /\ sched[s].raced
    /\ sched[s].firstAlerts = 1

\* C2: a scheduler that is alive, waiting and not cancelled fires no later
\* than one check interval of awake time after the wall clock reached the
\* target, however long the direct timeout is held up.
C2_FiresByNextCheck ==
  \A s \in Scheds :
    (sched[s].st = "waiting" /\ ~sched[s].sig) => sched[s].overdue <= CheckTicks

\* C3: a hook that classified its text as a rate limit and found the record
\* naming a live process exits 0, launches nothing and leaves the record as
\* it was.
C3_HookRefusesSecondAlarm ==
  [][\A c \in Clients :
       (/\ client[c].cmd = "hook"
        /\ client[c].pc = "start"
        /\ client'[c].obs # "none"
        /\ LiveRecord(pidFile, sched))
       => (/\ client'[c].pc = "done"
           /\ client'[c].exitCode = 0
           /\ ~client'[c].launched
           /\ sched' = sched
           /\ pidFile' = pidFile)]_vars

C3_Witness ==
  \E c \in Clients :
    /\ client[c].cmd = "hook"
    /\ client[c].pc = "done"
    /\ client[c].obs = "live"
    /\ client[c].sawLive

\* C4 as stated: at most one non-test scheduler is between claim and release.
C4_AtMostOneActive ==
  Cardinality({s \in Scheds : Active(sched[s])}) <= 1

\* C4 as amended: a launcher (hook or start) launches only when its own
\* liveness check found no record naming a live process; schedulers that are
\* active together were each launched on such a check.
C4_NoLaunchOverLiveRecord ==
  /\ \A s \in Scheds : sched[s].st # "unborn" => ~sched[s].overLive
  /\ \A s, u \in Scheds :
       (s # u /\ Active(sched[s]) /\ Active(sched[u]))
         => (~sched[s].overLive /\ ~sched[u].overLive)

C4_Witness ==
  \E s, u \in Scheds :
    /\ s # u
    /\ Active(sched[s])
    /\ Active(sched[u])
    /\ pidFile = u

\* C5: the liveness check reports active exactly when a record exists and
\* names a live process, and then changes nothing; on an absent record it
\* reports not active; on a record of a dead process it removes the record
\* and reports not active.
C5_LivenessCheck ==
  [][\A c \in Clients :
       /\ (/\ client[c].cmd \in {"hook", "start", "status"}
           /\ client[c].pc = "start"
           /\ client'[c].obs # "none")
          => /\ LiveRecord(pidFile, sched)
                => /\ client'[c].obs = "live"
                   /\ client'[c].pc = "done"
                   /\ client[c].cmd # "hook" => client'[c].result = "active"
                   /\ pidFile' = pidFile
             /\ pidFile = NoRecord
                => /\ client'[c].obs = "absent"
                   /\ client'[c].pc = "done"
                   /\ client[c].cmd # "hook" => client'[c].result = "inactive"
                   /\ pidFile' = NoRecord
             /\ (pidFile # NoRecord /\ ~LiveRecord(pidFile, sched))
                => /\ client'[c].obs = "stale"
                   /\ client'[c].pc = "reap"
                   /\ pidFile' = pidFile
       /\ (/\ client[c].cmd \in {"hook", "start", "status"}
           /\ client[c].pc = "reap"
           /\ client'[c].pc = "done"
           /\ client[c].cmd = "hook" => client'[c].launched)
          => /\ pidFile' = NoRecord
             /\ client[c].cmd # "hook" => client'[c].result = "inactive"]_vars

\* a status check found the record of a dead process, removed it and
\* reported not active
C5_Witness ==
  \E c \in Clients :
    /\ client[c].cmd = "status"
    /\ client[c].pc = "done"
    /\ client[c].obs = "stale"
    /\ client[c].result = "inactive"
    /\ pidFile = NoRecord

\* C6: release raises no error when the record is already absent and leaves
\* it absent; two releases in a row give what one gives.
C6_ReleaseIdempotent ==
  \A s \in Scheds :
    LET r == sched[s] IN
      ~r.test =>
        /\ cleanup(r, NoRecord) = [file |-> NoRecord, err |-> FALSE]
        /\ cleanup(r, cleanup(r, pidFile).file) = cleanup(r, pidFile)
        /\ r.cleanups > 0 => (~r.err /\ r.fileAfterExit = NoRecord)

\* a scheduler ran cleanup() twice on its way out (handler, then 'exit'):
\* the second call found the record absent
C6_Witness ==
  \E s \in Scheds :
    /\ sched[s].st = "exited"
    /\ sched[s].cleanups >= 2
    /\ ~sched[s].err

\* C7: a termination signal handled in any state releases the record and
\* ends the process, which renders nothing afterwards: handled while Waiting
\* the run never fired, handled after the first alert it never repeats; and
\* a delivered signal is always handled.
C7_SignalCancels ==
  /\ [](\A s \in Scheds :
          LET r == sched[s] IN
            r.exitVia = "signal" =>
              /\ r.st = "exited"
              /\ r.fileAfterExit = NoRecord
              /\ pidFile # s
              /\ r.exitFrom = "waiting" => (r.renders = 0 /\ r.firstAlerts = 0)
              /\ r.exitFrom = "fired" => r.renders = 1
              /\ r.exitFrom = "repeated" => r.renders <= 2)
  /\ [][\A s \in Scheds : sched[s].st = "exited" => sched'[s] = sched[s]]_vars
  /\ \A s \in Scheds : sched[s].sig ~> (sched[s].st = "exited")

\* a Waiting scheduler was signalled and is gone without having fired
C7_Witness ==
  \E s \in Scheds :
    /\ sched[s].st = "exited"
    /\ sched[s].exitVia = "signal"
    /\ sched[s].exitFrom = "waiting"
    /\ sched[s].renders = 0
    /\ pidFile = NoRecord

\* C8: the dialog closing after the first alert and before the repeat
\* callback releases the record and ends the process; the repeat is never
\* rendered.
C8_DismissCancelsRepeat ==
  \A s \in Scheds :
    LET r == sched[s] IN
      (r.exitVia = "dismiss" /\ r.exitFrom = "fired") =>
        /\ r.st = "exited"
        /\ r.fileAfterExit = NoRecord
        /\ pidFile # s
        /\ r.renders = 1
        /\ r.repeatT = NoTimer

C8_Witness ==
  \E s \in Scheds :
    /\ sched[s].st = "exited"
    /\ sched[s].exitVia = "dismiss"
    /\ sched[s].exitFrom = "fired"
    /\ sched[s].renders = 1

C10_FiredRunExits ==
  /\ [](\A s \in Scheds :
          LET r == sched[s] IN
            /\ r.st \in {"fired", "repeated"} => r.sinceFire <= RepeatTicks + GraceTicks
            /\ r.st = "exited" => (pidFile # s /\ r.fileAfterExit = NoRecord))
  /\ \A s \in Scheds :
       (sched[s].st \in {"fired", "repeated"}) ~> (sched[s].st = "exited")

\* never dismissed, never signalled: the grace timer ended the run
C10_Witness ==
  \E s \in Scheds :
    /\ sched[s].st = "exited"
    /\ sched[s].exitVia = "grace"
    /\ sched[s].renders = 2
    /\ pidFile = NoRecord

\* C14 as stated: for every wait argument and every saved configuration the
\* wait a non-test scheduler uses is a finite number >= 0 of milliseconds,
\* and a negative or non-numeric argument is replaced by the configured
\* default.
C14_WaitFiniteNonNegative ==
  (io.fn = "waitMs" /\ io.done) =>
    /\ FiniteNonNegative(io.outV)
    /\ (io.arg.t \in {"str", "undef"} \/ (io.arg.t = "num" /\ io.arg.x < 0))
         => waitMinutes(daemon, io.arg, io.cfg) = io.cfg

\* C15 as stated: extractResetTime returns unknown or a strictly positive
\* number of minutes, never zero, for every text and every current time.
C15_PositiveOrUnknown ==
  (io.fn = "extractResetTime" /\ io.done) => (io.outN = Null \/ io.outN > 0)

\* the duration expressions of a version of the hook
DurationKinds(v) ==
  {"inHours", "inMinutes", "retryAfter"} \cup (IF v = "new" THEN {"inSeconds"} ELSE {})

\* the clock time the text gives, in seconds since midnight: that of the
\* first AM/PM time when there is one, else that of the first time after
\* at / until / by; Null when a duration comes first, when there is no clock
\* time, or when hour or minute is out of range
GivenClock(v, text) ==
  LET ap == {i \in 1..Len(text) : text[i].k = "clock" /\ text[i].ap # "none"}
      at == {i \in 1..Len(text) : text[i].k = "clock" /\ text[i].prep}
      lo(S) == CHOOSE i \in S : \A j \in S : i <= j
  IN IF \E i \in 1..Len(text) : text[i].k \in DurationKinds(v) THEN Null
     ELSE IF ap # {}
     THEN LET c == text[lo(ap)] IN
          IF c.h \in 1..12 /\ c.m \in 0..59
          THEN 3600 * ((c.h % 12) + (IF c.ap = "PM" THEN 12 ELSE 0)) + 60 * c.m
          ELSE Null
     ELSE IF at # {}
     THEN LET c == text[lo(at)] IN
          IF c.h \in 0..23 /\ c.m \in 0..59 THEN 3600 * c.h + 60 * c.m ELSE Null
     ELSE Null

\* C16: for a matched clock time with hour and minute in range the parser
\* returns the minutes from now to the next occurrence of that clock time,
\* rounded up and at least 1: today if strictly in the future, otherwise
\* tomorrow (also when it equals now).  At 14:00 "at 15:00" gives 60 and
\* "at 13:00" gives 1380.
C16_NextOccurrence ==
  /\ (io.fn = "extractResetTime" /\ io.done /\ GivenClock(io.v, io.text) # Null) =>
       LET clk == GivenClock(io.v, io.text)
           next == IF clk > io.now THEN clk ELSE clk + 86400
           r == io.outN \div 60
       IN /\ io.outN # Null
          /\ io.outN % 60 = 0
          /\ r >= 1
          /\ r * 60 >= next - io.now
          /\ (r - 1) * 60 < next - io.now
          /\ r <= 1440
  /\ \A v \in HookVersions :
       /\ extractResetTime(v, <<Clock(15, 0, "none", TRUE)>>, 50400) = 60 * 60
       /\ extractResetTime(v, <<Clock(13, 0, "none", TRUE)>>, 50400) = 60 * 1380
       /\ extractResetTime(v, <<Clock(14, 0, "none", TRUE)>>, 50400) = 60 * 1440

\* "2:00 PM" read at 14:00:30 has passed: the result is tomorrow's 14:00
C16_Witness ==
  /\ io.fn = "extractResetTime"
  /\ io.done
  /\ io.now = 50430
  /\ io.text = <<Other, Clock(2, 0, "PM", FALSE)>>
  /\ io.outN = 60 * 1440

\* the wordings of the fixed patterns of a version
Wordings(v) == {rateLimitPatterns(v)[j] : j \in 1..Len(rateLimitPatterns(v))}

\* C17: the classifier returns true exactly when the text holds one of the
\* fixed indicator patterns, in any case, and false otherwise, also for the
\* empty text; the result is a function of the text and the call changes
\* nothing else.
C17_ClassifierIffIndicator ==
  /\ (io.fn = "matchesRateLimit" /\ io.done) =>
       /\ io.outB =
            (\E i \in 1..Len(io.text) :
               /\ io.text[i].k = "ind"
               /\ io.text[i].w \in Wordings(io.v)
               /\ IF io.text[i].w = "429" THEN io.text[i].gap = 0
                  ELSE io.text[i].gap <= 1)
       /\ io.text = <<>> => ~io.outB
       /\ io.outB = matchesRateLimit(io.v, io.text)
  /\ (io.fn = "matchesRateLimit") =>
       (pidFile = NoRecord /\ \A s \in Scheds : sched[s] = NewSched)

\* "RATE LIMIT" after other words is classified as a rate limit
C17_Witness ==
  /\ io.fn = "matchesRateLimit"
  /\ io.done
  /\ io.text = <<Other, Indicator("rate limit", TRUE, 1)>>
  /\ io.outB

C12_HookExitsZero ==
  /\ [](\A c \in Clients :
          client[c].cmd = "hook" =>
            /\ client[c].exitCode \in {-1, 0}
            /\ client[c].pc = "done" <=> client[c].exitCode = 0)
  /\ \A c \in Clients :
       (client[c].cmd = "hook") ~> (client[c].pc = "done" /\ client[c].exitCode = 0)

\* stdin never ended: the timer ended the run with code 0
C12_Witness ==
  \E c \in Clients :
    /\ client[c].cmd = "hook"
    /\ client[c].pc = "done"
    /\ client[c].result = "deadline"
    /\ client[c].exitCode = 0

\* C13 as stated: a hook that classified its text as a rate limit and found
\* no live alarm launches a scheduler whose wait is the parser's result when
\* the parser returned a value, and the configured default (240 minutes
\* without a configured value) when it returned unknown.
C13_WaitFromParserOrDefault ==
  /\ defaultWait(Undefined) = 60 * 240
  /\ \A c \in Clients :
       (client[c].cmd = "hook" /\ client[c].launched) =>
         client[c].w = WaitTicks(IF client[c].reset # Null THEN client[c].reset
                                 ELSE client[c].dflt)

\* C18 as stated: `start` accepts "Nh", "Nm", "Ns" and a bare number of
\* minutes, and for each of them (no alarm being active) launches a
\* scheduler.
C18_StartAcceptsAllForms ==
  \A c \in Clients :
    (/\ client[c].cmd = "start"
     /\ client[c].pc = "done"
     /\ client[c].arg.form \in {"h", "m", "s", "bare"}
     /\ client[c].arg.n >= 1
     /\ client[c].obs # "live")
    => (client[c].launched /\ client[c].exitCode = 0)

\* C19: `start` exits with code 1 and launches nothing when the time
\* expression is missing or invalid and when the record names a live
\* process; in that last case the record stays as it was.
C19_StartRefuses ==
  /\ [](\A c \in Clients :
          (client[c].cmd = "start" /\ client[c].exitCode = 1)
            => (client[c].pc = "done" /\ ~client[c].launched))
  /\ [][\A c \in Clients :
          (/\ client[c].cmd = "start"
           /\ client[c].pc = "start"
           /\ client'[c] # client[c]
           /\ \/ client'[c].arg.form \in {"missing", "s", "junk"}
              \/ (client'[c].arg.form \in {"h", "m", "bare"} /\ client'[c].arg.n = 0)
              \/ LiveRecord(pidFile, sched))
          => (/\ client'[c].pc = "done"
              /\ client'[c].exitCode = 1
              /\ ~client'[c].launched
              /\ sched' = sched
              /\ pidFile' = pidFile)]_vars

\* `start 1m` while an alarm is active: refused, the record still names it
C19_Witness ==
  \E c \in Clients :
    /\ client[c].cmd = "start"
    /\ client[c].pc = "done"
    /\ client[c].exitCode = 1
    /\ client[c].obs = "live"
    /\ client[c].arg = TimeArg("m", 1)
    /\ LiveRecord(pidFile, sched)

\* C20: when `stop` returns the record is absent; if there was a record the
\* process it named was sent the termination signal, and a scheduler that
\* handled the signal is gone and renders nothing more; if there was no
\* record, stop changes nothing and signals nobody.
C20_StopReleases ==
  /\ [][\A c \in Clients :
          /\ (client[c].cmd = "stop" /\ client[c].pc = "start" /\ client'[c] # client[c])
             => IF pidFile = NoRecord
                THEN /\ client'[c].pc = "done"
                     /\ pidFile' = NoRecord
                     /\ sched' = sched
                ELSE /\ client'[c].pc = "unlink"
                     /\ LiveRecord(pidFile, sched) => sched'[pidFile].sig
                     /\ \A s \in Scheds : s # pidFile => sched'[s] = sched[s]
          /\ (client[c].cmd = "stop" /\ client[c].pc # "done" /\ client'[c].pc = "done")
             => pidFile' = NoRecord]_vars
  /\ [](\A s \in Scheds : sched[s].exitVia = "signal" => sched[s].st = "exited")
  /\ [][\A s \in Scheds :
          sched[s].exitVia = "signal" => sched'[s].renders = sched[s].renders]_vars

\* stop found the record of a waiting scheduler; the scheduler handled the
\* signal without ever having alerted
C20_Witness ==
  \E c \in Clients, s \in Scheds :
    /\ client[c].cmd = "stop"
    /\ client[c].pc = "done"
    /\ client[c].obs = "live"
    /\ sched[s].exitVia = "signal"
    /\ sched[s].exitFrom = "waiting"
    /\ sched[s].renders = 0
    /\ pidFile = NoRecord

\* ------------------------------------------------ claims on the parser
\* the place of a phrase in the order of the branches of extractResetTime:
\* 1 relative hours, 2 relative minutes, 3 relative seconds, 4 retry-after,
\* 5 twelve-hour clock, 6 twenty-four-hour clock, 7 nothing recognized
Priority(v, ph) ==
  CASE ph.k = "inHours" -> 1
    [] ph.k = "inMinutes" -> 2
    [] ph.k = "inSeconds" /\ v = "new" -> 3
    [] ph.k = "retryAfter" -> 4
    [] ph.k = "clock" /\ ph.ap # "none" -> 5
    [] ph.k = "clock" /\ ph.ap = "none" /\ ph.prep -> 6
    [] OTHER -> 7

\* the first phrase of the best priority in the text
Leading(v, text) ==
  CHOOSE i \in 1..Len(text) :
    /\ \A j \in 1..Len(text) : Priority(v, text[i]) <= Priority(v, text[j])
    /\ \A j \in 1..(i - 1) : Priority(v, text[j]) > Priority(v, text[i])

\* C21: a text with several recognized time expressions gives what its
\* highest-priority expression gives when it stands alone, in the fixed
\* order relative hours, relative minutes, relative seconds, retry-after,
\* 12-hour clock, 24-hour clock, wherever the expressions stand in the text.
C21_PriorityOrder ==
  (io.fn = "extractResetTime" /\ io.done /\ io.text # <<>>)
  => io.outN = extractResetTime(io.v, <<io.text[Leading(io.v, io.text)]>>, io.now)

\* a text with "in 61 minutes" before "in 2 hours" gave the 120 minutes, and
\* one with a 12-hour clock time before "retry-after: 90" gave the 2 minutes
C21_Witness ==
  /\ io.fn = "extractResetTime"
  /\ io.done
  /\ \/ /\ io.text = <<Duration("inMinutes", 61), Duration("inHours", 200)>>
        /\ io.outN = 60 * 120
     \/ /\ io.text = <<Clock(2, 0, "PM", FALSE), Duration("retryAfter", 90)>>
        /\ io.outN = 60 * 2

\* the first phrase of kind k in the text, 0 when there is none
FirstOf(text, k) ==
  IF \E i \in 1..Len(text) : text[i].k = k
  THEN CHOOSE i \in 1..Len(text) :
         text[i].k = k /\ \A j \in 1..(i - 1) : text[j].k # k
  ELSE 0

StatedDelay(ph, now) ==
  CASE ph.k = "inHours" -> 36 * ph.n + 60 * ph.m
    [] ph.k = "inMinutes" -> 60 * ph.n
    [] ph.k \in {"inSeconds", "retryAfter"} -> ph.n
    [] OTHER ->
       LET h == IF ph.ap = "PM" /\ ph.h # 12 THEN ph.h + 12
                ELSE IF ph.ap = "AM" /\ ph.h = 12 THEN 0 ELSE ph.h
           today == 3600 * h + 60 * ph.m
       IN IF today > now THEN today - now ELSE today + 86400 - now

\* C23 as stated: the wait returned for a text that states one reset delay
\* is never shorter than that delay, also when the delay is written with
\* more than one unit (hours followed by minutes).
C23_NeverEarly ==
  (io.fn = "extractResetTime" /\ io.done /\ io.outN # Null)
  => \A i \in 1..Len(io.text) :
       (io.text[i].k # "other" /\ \A j \in 1..Len(io.text) : j # i => io.text[j].k = "other")
       => io.outN >= StatedDelay(io.text[i], io.now)

\* ------------------------------------------------ claims on the hook
\* C24: a hook invocation whose payload is not valid JSON, is no object, or
\* whose text carries no rate-limit indicator exits 0 in one step that
\* launches no scheduler and neither reads, deletes nor writes the liveness
\* record, also when the record is stale.
C24_IgnoredPayloadTouchesNothing ==
  [][\A c \in Clients :
       (client[c].cmd = "hook" /\ client[c].pc = "start"
          /\ client'[c].result = "ignored")
       => /\ client'[c].pc = "done"
          /\ client'[c].exitCode = 0
          /\ client'[c].obs = "none"
          /\ ~client'[c].sawLive
          /\ ~client'[c].launched
          /\ pidFile' = pidFile
          /\ sched' = sched]_vars

\* a hook without a rate-limit indicator has exited, nothing was launched
\* and the stale record is still there
C24_Witness ==
  \E c \in Clients :
    /\ client[c].cmd = "hook"
    /\ client[c].pc = "done"
    /\ client[c].result = "ignored"
    /\ client[c].obs = "none"
    /\ pidFile = StalePid
    /\ \A s \in Scheds : sched[s].st = "unborn"

\* ------------------------------------------------ claims on the alerts
\* the sound mechanisms an alert runs on a host
SoundTools(v, e) ==
  (IF v = "v3" THEN {} ELSE {"bell"})
  \cup (IF e.platform = "darwin" THEN {"notification", "chime", "speech"}
        ELSE IF e.platform = "linux"
        THEN {"notification", "sound"} \cup (IF e.voice THEN {"speech"} ELSE {})
        ELSE IF e.platform = "win32" THEN {"speech"}
        ELSE {})

\* C25: whichever of the alert mechanisms (notification, chime, speech,
\* notification sound with its fallback player) fail, every mechanism of the
\* host is attempted exactly once per alert and none a second time (the
\* fallback player once per alert exactly when the first player failed), and
\* the scheduler goes on as when all succeed: the repeat is armed after the
\* first alert, the exit after the repeat, and the run never ends on an
\* error.
C25_FailuresIsolated ==
  \A s \in Scheds :
    LET r == sched[s]
        e == r.env
    IN e.push = "none"
       => /\ \A t \in SoundTools(daemon, e) : r.att[t] = r.renders
          /\ r.att["fallback"] =
               (IF e.platform = "linux" /\ "sound" \in e.fails THEN r.renders ELSE 0)
          /\ \A t \in Mechanisms \ (SoundTools(daemon, e) \cup {"fallback"}) :
               r.att[t] = 0
          /\ r.renders <= 2
          /\ r.st = "fired" => (r.repeatT # NoTimer /\ r.firstAlerts = 1)
          /\ r.st = "repeated" => r.graceT # NoTimer
          /\ r.exitVia # "crash"
          /\ ~r.threw

\* with the notification failing on macOS the chime and the voice were
\* attempted in both alerts; with paplay failing on Linux aplay was
\* attempted in both; either run ended by the exit timer
C25_Witness ==
  \E s \in Scheds :
    LET r == sched[s] IN
      /\ r.st = "exited"
      /\ r.exitVia = "grace"
      /\ r.renders = 2
      /\ \/ /\ r.env.platform = "darwin"
            /\ r.env.fails = {"notification"}
            /\ r.att["chime"] = 2
            /\ r.att["speech"] = 2
         \/ /\ r.env.platform = "linux"
            /\ r.env.fails = {"sound"}
            /\ r.att["fallback"] = 2

\* C26 as stated: with a push topic configured no failure of the push step
\* (bad relay URL or protocol, request that cannot be built, network error)
\* stops the scheduler: after the first alert the repeat is armed, and the
\* run never ends on an error.
C26_PushFailureSwallowed ==
  \A s \in Scheds :
    LET r == sched[s] IN
      (~r.test /\ r.env.push \in {"neterr", "badurl", "badproto"})
      => /\ r.exitVia # "crash"
         /\ (r.firstAlerts = 1 /\ r.sinceFire = 0 /\ r.st # "exited")
            => (r.st = "fired" /\ r.repeatT # NoTimer)

\* C30: a test-mode run (--now) never changes the liveness record and never
\* changes another scheduler; it writes, deletes and claims nothing, also
\* when its alert ends on an error.
C30_TestRunLeavesRecord ==
  [][\A s \in Scheds :
       (sched[s].test /\ sched'[s] # sched[s])
       => /\ pidFile' = pidFile
          /\ \A t \in Scheds : t # s => sched'[t] = sched[t]]_vars

\* the test alarm has played and exited while the real alarm was pending:
\* the record still names the pending scheduler, which waits on
C30_Witness ==
  \E s, t \in Scheds :
    /\ sched[t].test
    /\ sched[t].st = "exited"
    /\ sched[t].renders = 1
    /\ sched[t].exitFrom = "boot"
    /\ ~sched[s].test
    /\ sched[s].st = "waiting"
    /\ sched[s].toTarget > 0
    /\ pidFile = s

\* ---------------------------------------- claims on the liveness record
\* C27 as stated: while a non-test scheduler is waiting, firing or awaiting
\* its repeat, and has been neither dismissed nor sent a termination signal,
\* the liveness record exists and names that scheduler, in every
\* interleaving with hooks, CLI commands and other schedulers.
C27_RecordNamesLiveScheduler ==
  \A s \in Scheds :
    (Active(sched[s]) /\ ~sched[s].sig) => pidFile = s

\* C28 as stated: a release by a scheduler (dismissal, signal, exit) removes
\* the record only when the record names that scheduler; it never removes a
\* record that names a different live scheduler.
C28_ReleaseOnlyOwnRecord ==
  [][\A s \in Scheds :
       (sched'[s].cleanups > sched[s].cleanups /\ pidFile' # pidFile)
       => ~(pidFile # s /\ LiveRecord(pidFile, sched))]_vars

\* C29 as stated: the reaping of a stale record by a hook or by
\* isAlarmRunning (status, start) never deletes a record that names a live
\* scheduler, however the probe and the delete interleave with the claim of
\* a scheduler.
C29_ReapOnlyStaleRecord ==
  [][\A c \in Clients :
       (client[c].pc = "reap" /\ client'[c].pc = "done" /\ pidFile' # pidFile)
       => ~LiveRecord(pidFile, sched)]_vars

\* ------------------------------------------------ claims on the target
\* C31 as stated: a non-test scheduler never renders its first alert while
\* the wall clock is earlier than its target time (launch time + wait),
\* whichever of the two timers triggers the fire.
C31_NeverBeforeTarget ==
  [][\A s \in Scheds :
       (~sched[s].test /\ sched'[s].firstAlerts > sched[s].firstAlerts)
       => sched[s].toTarget = 0]_vars

\* C32 as stated: for every text in which the 12-hour clock-time expression
\* decides the result (any one- or two-digit hour, any two-digit minute, AM
\* or PM, and no duration before it in the order of the parser), the result
\* is between 1 and 1440 minutes: the target is never more than 24 hours
\* after the current time.
C32_AmPmWithinADay ==
  (/\ io.fn = "extractResetTime"
   /\ io.done
   /\ \E i \in 1..Len(io.text) : io.text[i].k = "clock" /\ io.text[i].ap # "none"
   /\ \A i \in 1..Len(io.text) : io.text[i].k \notin DurationKinds(io.v))
  => (io.outN >= 60 * 1 /\ io.outN <= 60 * 1440)

====
